---- MODULE Spec2Model ----
(***************************************************************************)
(* Walk-forward feature engine of f1-pred: create_advanced_features        *)
(* (src/feature_eng.py).  A run takes the caller's race table, copies it,  *)
(* coerces its columns, sorts it, derives the time_order column, then      *)
(* walks every driver's timeline and appends one feature row for every     *)
(* record with at least three earlier records of the same driver.          *)
(*                                                                         *)
(* Numbers.  Table cells are integers; NaN stands for a missing cell and   *)
(* BadText for a cell whose text pd.to_numeric cannot parse.  Means and    *)
(* rates are exact fractions <<numerator, denominator>>; the standard      *)
(* deviation is carried as the fraction under its square root; np.exp is   *)
(* a fixed-point series with Scale units per 1.0.                          *)
(***************************************************************************)
EXTENDS Integers, Sequences, FiniteSets, TLC

VARIABLES
    df_races,           \* the caller's table (module-level df_races)
    df,                 \* the function's local table, once prepared
    pc,                 \* "call", "drivers", "rows", "done", "raised"
    drivers,            \* df["driver_code"].unique()
    d,                  \* position of the outer loop in drivers
    df_driver,          \* the current driver's timeline
    idx,                \* position of the inner loop in df_driver
    history,            \* df_driver.iloc[:idx] of the last inner iteration
    current_race,       \* df_driver.iloc[idx] of the last emitting iteration
    features,           \* the list of rows built so far
    processed_drivers,  \* diagnostic counter
    rows_per_season,    \* diagnostic counter per season
    result,             \* the returned table, NoResult until the return
    weights,            \* the recency weights of lines 91-92, computed alone
    program,            \* the function that runs
    service,            \* what fastf1 holds for each (season, round)
    year,               \* loop variable: year, season in collect_f1_race_dataset
    round_number,       \* loop variable: round_number, round_num
    res,                \* position of the driver loop in results
    session_rows,       \* process_session's list of rows
    total_pit_time,     \* process_session's local of that name
    pole_seconds,       \* process_session's local of that name
    all_rows,           \* all_rows, all_data in build_full_dataset
    log,                \* the rounds printed as failed
    dataset             \* the returned dataset, NoResult until the return

vars == <<df_races, df, pc, drivers, d, df_driver, idx, history, current_race,
          features, processed_drivers, rows_per_season, result, weights,
          program, service, year, round_number, res, session_rows,
          total_pit_time, pole_seconds, all_rows, log, dataset>>

\* the variables of the two dataset builders
ingestion == <<program, service, year, round_number, res, session_rows,
               total_pit_time, pole_seconds, all_rows, log, dataset>>

\* the variables of create_advanced_features, pc apart
engine == <<df_races, df, drivers, d, df_driver, idx, history, current_race,
            features, processed_drivers, rows_per_season, result, weights>>

(***************************************************************************)
(* Cell values                                                             *)
(***************************************************************************)
NaN == -1
BadText == -2
NoResult == <<"no result">>
NoRace == [driver_code |-> "none"]

\* pd.to_numeric(errors="coerce"): text that is no number becomes NaN
ToNumeric(v) == IF v = BadText THEN NaN ELSE v

\* pd.to_datetime(errors="coerce"): text that is no date becomes NaT
ToDatetime(v) == IF v = BadText THEN NaN ELSE v

\* Series.fillna(fill)
FillNa(v, fill) == IF v = NaN THEN fill ELSE v

(***************************************************************************)
(* Program constants                                                       *)
(***************************************************************************)
MinHistory == 3
FillPosition == 20
FillPoints == 0
SeasonMultiplier == 100
FormWindow == 3
PodiumWindow == 5
PodiumLimit == 3
LinspaceSpan == 2

(***************************************************************************)
(* Bounds of the model                                                     *)
(***************************************************************************)
MaxRows == 5
MaxOthers == 2
MaxLong == 7
ExpTerms == 12
Scale == 10^4

(***************************************************************************)
(* Sequence helpers                                                        *)
(***************************************************************************)
RECURSIVE SumSeq(_)
SumSeq(s) == IF s = <<>> THEN 0 ELSE Head(s) + SumSeq(Tail(s))

\* DataFrame.head(k), taken where tail(k) is meant
HeadRows(s, k) == IF Len(s) <= k THEN s ELSE SubSeq(s, 1, k)

\* DataFrame.tail(k)
TailRows(s, k) == IF Len(s) <= k THEN s ELSE SubSeq(s, Len(s) - k + 1, Len(s))

Col(t, c) == [i \in 1..Len(t) |-> t[i][c]]

\* record r with column c set to v (added when absent)
WithCol(r, c, v) == [f \in DOMAIN r \cup {c} |-> IF f = c THEN v ELSE r[f]]

(***************************************************************************)
(* The records a race table is drawn from.  R(...) is one CSV row as       *)
(* collect_f1_race_dataset writes it; dates are day numbers.               *)
(***************************************************************************)
R(season, round, event, date, code, final, grid, status, points) ==
    [season |-> season, round |-> round, event_name |-> event,
     location |-> event, event_date |-> date, driver_code |-> code,
     driver_name |-> code, team_name |-> "Team",
     final_position |-> final, grid_position |-> grid,
     status |-> status, points |-> points]

Pool ==
    << R(2023, 1, "Spa",   310,     "AAA", 1,   1,   "Finished", 25),
       R(2022, 2, "Spa",   120,     "AAA", 3,   6,   "Finished", 15),
       R(2022, 3, "Imola", 130,     "BBB", 2,   2,   "Finished", 18),
       R(2022, 5, "Monza", BadText, "AAA", NaN, NaN, "Retired",  NaN),
       R(2022, 1, "Monza", BadText, "AAA", 5,   4,   "Finished", 10),
       R(2023, 3, "Imola", 330,     "AAA", NaN, 3,   "Retired",  0),
       R(2023, 1, "Spa",   310,     "AAA", 4,   2,   "Finished", 12),
       R(2022, 1, "Monza", 110,     "BBB", 4,   5,   "Lapped",   12),
       R(2022, BadText, "Spa", 140, "AAA", 7,   7,   "Finished", 6) >>

\* alphabetical position of a driver code (the order sort_values uses)
DriverOrd(code) == CASE code = "AAA" -> 1 [] code = "BBB" -> 2 [] OTHER -> 3

KeyOf(r) == <<r.season, r.round, r.driver_code>>

UniqueKeys(t) == \A i, j \in 1..Len(t) : KeyOf(t[i]) = KeyOf(t[j]) => i = j

\* the table without its event_date column
DropDate(t) ==
    [i \in 1..Len(t) |-> [f \in DOMAIN t[i] \ {"event_date"} |-> t[i][f]]]

HasColumn(t, c) == Len(t) > 0 /\ c \in DOMAIN t[1]

RECURSIVE SetToSeq(_, _)
\* the pool rows with indices in S, ascending (up = TRUE) or descending
SetToSeq(S, up) ==
    IF S = {} THEN <<>>
    ELSE LET m == CHOOSE x \in S : \A y \in S : IF up THEN x <= y ELSE x >= y
         IN  <<Pool[m]>> \o SetToSeq(S \ {m}, up)

\* the race tables of the model
Tables ==
    LET withDate == {SetToSeq(S, up) : S \in {X \in SUBSET (1..Len(Pool)) :
                                               Cardinality(X) <= MaxRows},
                                        up \in BOOLEAN}
    IN  withDate \cup {DropDate(t) : t \in withDate}

\* one driver's seasons, long enough for the 5-race window to cut a history,
\* with rows whose season or round is missing or is no number
LongPool ==
    << R(2022, 3, "Imola",  130, "AAA", 3,   6,   "Finished", 15),
       R(2023, 2, "Spa",    320, "AAA", 12,  9,   "+1 Lap",   0),
       R(2022, 1, "Monza",  110, "AAA", 1,   2,   "Finished", 25),
       R(2022, NaN, "Spa",  125, "AAA", 6,   6,   "Finished", 8),
       R(2022, 4, "Monaco", 140, "AAA", NaN, NaN, "DNF",      NaN),
       R(2023, 3, "Imola",  330, "AAA", 2,   3,   "Finished", 18),
       R(2022, 2, "Spa",    120, "BBB", 4,   5,   "Finished", 12),
       R(BadText, 1, "Monza", 110, "BBB", 9, 9,   "Finished", 2),
       R(2022, 2, "Spa",    120, "AAA", 5,   4,   "Finished", 10),
       R(2023, 1, "Monza",  310, "AAA", 1,   1,   "Finished", 25),
       R(2023, BadText, "Spa", 320, "BBB", 7, 7,  "Finished", 6) >>

RECURSIVE PickRows(_, _)
\* the rows of pool with indices in S, in the pool's order
PickRows(pool, S) ==
    IF S = {} THEN <<>>
    ELSE LET m == CHOOSE x \in S : \A y \in S : x <= y
         IN  <<pool[m]>> \o PickRows(pool, S \ {m})

\* the race tables drawn from LongPool
LongTables ==
    {PickRows(LongPool, S) : S \in {X \in SUBSET (1..Len(LongPool)) :
                                       Cardinality(X) <= MaxLong}}

(***************************************************************************)
(* Steps 1 and 2 of create_advanced_features: copy, coerce, sort, and the  *)
(* time_order column                                                       *)
(***************************************************************************)
\* no copy: the local name still refers to the caller's table object
DfNoCopy(t) == [rows |-> t, shared |-> TRUE]

\* df.copy(): a new table object holding the same rows, sharing nothing
DfCopy(t) == [rows |-> t, shared |-> FALSE]

\* the column assignments of lines 30-35 and 43
Coerce(t) ==
    [i \in 1..Len(t) |->
        LET r  == t[i]
            r1 == [r EXCEPT !.season = ToNumeric(@), !.round = ToNumeric(@)]
            r2 == WithCol(r1, "final_position_num", ToNumeric(r.final_position))
            r3 == WithCol(r2, "grid_position_num", ToNumeric(r.grid_position))
        IN  IF "event_date" \in DOMAIN r
            THEN [r3 EXCEPT !.event_date = ToDatetime(@)]
            ELSE r3]

\* one sort column's key: missing values sort last (na_position="last")
NaLast(v) == IF v = NaN THEN <<1, 0>> ELSE <<0, v>>

\* the columns sort_values is given, per row
SortKey(r) ==
    IF "event_date" \in DOMAIN r
    THEN NaLast(r.season) \o NaLast(r.event_date) \o <<DriverOrd(r.driver_code)>>
    ELSE NaLast(r.season) \o NaLast(r.round) \o <<DriverOrd(r.driver_code)>>

RECURSIVE LexLess(_, _)
LexLess(a, b) ==
    /\ a # <<>>
    /\ b # <<>>
    /\ \/ Head(a) < Head(b)
       \/ Head(a) = Head(b) /\ LexLess(Tail(a), Tail(b))

\* DataFrame.sort_values on several columns: a stable sort by key
SortValues(t) ==
    LET n == Len(t)
        key == [i \in 1..n |-> SortKey(t[i])]
        before(j, i) == \/ LexLess(key[j], key[i])
                        \/ key[j] = key[i] /\ j < i
        place == [i \in 1..n |-> Cardinality({j \in 1..n : before(j, i)}) + 1]
    IN  [p \in 1..n |-> t[CHOOSE i \in 1..n : place[i] = p]]

\* groupby("season")["round"].rank(method="dense") of row i
DenseRank(t, i) ==
    Cardinality({t[j].round : j \in {k \in 1..Len(t) :
                                       /\ t[k].season = t[i].season
                                       /\ t[k].round <= t[i].round}})

\* lines 50-53 for one row with the season multiplier left out
TimeOrderNoMultiplier(t, i) == t[i].season + DenseRank(t, i)

\* lines 50-53 for one row
TimeOrder(t, i) == t[i].season * SeasonMultiplier + DenseRank(t, i)

WithTimeOrder(t) ==
    [i \in 1..Len(t) |-> WithCol(t[i], "time_order", TimeOrder(t, i))]

\* a cast that lets missing values through
CastNeverRaises(t) == FALSE

\* astype(int) raises on a missing season or on the missing rank of a missing round
CastRaises(t) == \E i \in 1..Len(t) : t[i].season = NaN \/ t[i].round = NaN

\* the local table after line 53
Prepared(t) == WithTimeOrder(SortValues(Coerce(DfCopy(t).rows)))

\* Series.unique(): the values in order of first appearance
Unique(s) ==
    LET firsts == {i \in 1..Len(s) : \A j \in 1..(i - 1) : s[j] # s[i]}
        nth(p) == CHOOSE i \in firsts : Cardinality({j \in firsts : j < i}) = p - 1
    IN  [p \in 1..Cardinality(firsts) |-> s[nth(p)]]

\* the selection without its filter: every row of the table
DriverRowsUnfiltered(t, driver) == t

\* df[df["driver_code"] == driver]
DriverRows(t, driver) == SelectSeq(t, LAMBDA r : r.driver_code = driver)

RECURSIVE Arrangements(_, _)
\* the orders a sort of rows by time_order may leave the rows S in: the
\* default sort kind is not stable, so rows of equal time_order come out in
\* either order
Arrangements(rows, S) ==
    IF S = {} THEN {<<>>}
    ELSE LET least == {i \in S : \A j \in S : rows[i].time_order <= rows[j].time_order}
         IN  UNION {{<<rows[i]>> \o rest : rest \in Arrangements(rows, S \ {i})} :
                    i \in least}

\* lines 65-69 without sort_values("time_order")
TimelinesUnsorted(t, driver) == {DriverRows(t, driver)}

\* lines 65-69: the timelines sort_values("time_order") may produce
Timelines(t, driver) ==
    LET rows == DriverRows(t, driver)
    IN  Arrangements(rows, 1..Len(rows))

(***************************************************************************)
(* The aggregates of one loop iteration (lines 86-141)                     *)
(***************************************************************************)
RECURSIVE ExpSeries(_, _, _, _)
\* sum of the terms k.. of the series of exp(a/b), term being term k-1
ExpSeries(a, b, k, term) ==
    IF k > ExpTerms THEN 0
    ELSE LET next == (term * a) \div (b * k)
         IN  next + ExpSeries(a, b, k + 1, next)

\* np.exp(-a/b) in Scale units
ExpNeg(a, b) == (Scale * Scale) \div (Scale + ExpSeries(a, b, 1, Scale))

\* np.exp(np.linspace(-2, 0, n)), oldest first; linspace of one point is -2
ExpLinspace(n) ==
    [i \in 1..n |-> IF n = 1 THEN ExpNeg(LinspaceSpan, 1)
                    ELSE ExpNeg(LinspaceSpan * (n - i), n - 1)]

\* the same values, computed once for every length a history can have
WeightTable == [n \in 1..(MaxRows + MaxOthers) |-> ExpLinspace(n)]

RawWeights(n) == WeightTable[n]

\* weights / weights.sum() left out
NotNormalized(w) == w

\* weights / weights.sum(), in units of 1/Scale
Normalize(w) == [i \in 1..Len(w) |-> (w[i] * Scale) \div SumSeq(w)]

\* the weights of lines 91-92, computed once for every length
NormalizedTable == [n \in DOMAIN WeightTable |-> Normalize(RawWeights(n))]

\* weights after line 92
Weights(n) == NormalizedTable[n]

\* np.average(values, weights = w)
WeightedAvg(values, w) ==
    <<SumSeq([i \in 1..Len(values) |-> values[i] * w[i]]), SumSeq(w)>>

\* Series.mean()
Mean(values) == <<SumSeq(values), Len(values)>>

\* Series.std() squared: the sample variance, missing below two values
StdSquared(values) ==
    LET n  == Len(values)
        sq == SumSeq([i \in 1..n |-> values[i] * values[i]])
        sm == SumSeq(values)
    IN  IF n < 2 THEN NaN ELSE <<n * sq - sm * sm, n * (n - 1)>>

\* a comparison that takes the missing value for a number
LeqIgnoringNaN(v, k) == v <= k

\* a comparison with a missing value is False
Leq(v, k) == v # NaN /\ v <= k
Eq(v, k) == v # NaN /\ v = k

\* (values <= k).sum()
CountLeq(values, k) == Len(SelectSeq(values, LAMBDA v : Leq(v, k)))

FilledPositions(rows) ==
    [i \in 1..Len(rows) |-> FillNa(rows[i].final_position_num, FillPosition)]

FilledGrid(rows) ==
    [i \in 1..Len(rows) |-> FillNa(rows[i].grid_position_num, FillPosition)]

FilledPoints(rows) ==
    [i \in 1..Len(rows) |-> FillNa(rows[i].points, FillPoints)]

\* lines 132-141: history on the current circuit, with the fallback
CircuitHistory(hist, current) ==
    SelectSeq(hist, LAMBDA h : h.event_name = current.event_name)

\* the fallback taken from the plain mean of the history instead
AvgPosCircuitPlainFallback(hist, current, weighted_avg_position) ==
    IF Len(CircuitHistory(hist, current)) > 0
    THEN Mean(FilledPositions(CircuitHistory(hist, current)))
    ELSE Mean(FilledPositions(hist))

AvgPosCircuit(hist, current, weighted_avg_position) ==
    IF Len(CircuitHistory(hist, current)) > 0
    THEN Mean(FilledPositions(CircuitHistory(hist, current)))
    ELSE weighted_avg_position

(***************************************************************************)
(* The row of one loop iteration (lines 143-188)                           *)
(***************************************************************************)
Won(current_final_pos) == IF Eq(current_final_pos, 1) THEN 1 ELSE 0

Podium(current_final_pos) == IF Leq(current_final_pos, PodiumLimit) THEN 1 ELSE 0

\* the columns computed from the races before the current one
HistoryFeatures(hist, current) ==
    LET w == Weights(Len(hist))
        weighted_avg_position == WeightedAvg(FilledPositions(hist), w)
        last_3 == TailRows(hist, FormWindow)
        last_5 == TailRows(hist, PodiumWindow)
        finished == Len(SelectSeq(hist, LAMBDA h : h.status = "Finished"))
    IN  [race_experience |-> Len(hist),
         weighted_avg_position |-> weighted_avg_position,
         weighted_avg_points |-> WeightedAvg(FilledPoints(hist), w),
         recent_form_3races |-> Mean(FilledPositions(last_3)),
         recent_points_3races |-> SumSeq(FilledPoints(last_3)),
         podiums_last_5races |->
             CountLeq(Col(last_5, "final_position_num"), PodiumLimit),
         consistency_std_position |-> StdSquared(FilledPositions(hist)),
         finish_rate |-> IF Len(hist) > 0 THEN <<finished, Len(hist)>> ELSE <<0, 1>>,
         avg_grid_position_history |-> Mean(FilledGrid(hist)),
         avg_grid_to_race_gain |->
             Mean([i \in 1..Len(hist) |->
                      FilledGrid(hist)[i] - FilledPositions(hist)[i]]),
         avg_position_on_circuit |->
             AvgPosCircuit(hist, current, weighted_avg_position),
         circuit_experience |-> Len(CircuitHistory(hist, current))]

\* the meta and target columns, taken from the current race
CurrentColumns(current) ==
    [season |-> current.season,
     round |-> current.round,
     event_name |-> current.event_name,
     location |-> current.location,
     driver_code |-> current.driver_code,
     driver_name |-> current.driver_name,
     team_name |-> current.team_name,
     final_position |-> current.final_position_num,
     won |-> Won(current.final_position_num),
     podium |-> Podium(current.final_position_num),
     points_scored |-> current.points,
     grid_position |-> current.grid_position_num]

BuildRow(hist, current) == CurrentColumns(current) @@ HistoryFeatures(hist, current)

(***************************************************************************)
(* The data service and the locals of the dataset builders                 *)
(* (data_ingestion.py, data_ingestion2.py)                                 *)
(***************************************************************************)
\* a local that no statement has assigned yet
Unassigned == -4

\* Python's None
None == -3

\* one line of session.results, with what the session's laps hold for the
\* driver: laps is "none" (no lap of the driver), "no_stops", "stops" (pit
\* seconds of pit stops in all) or "bad_compound" (laps whose Compound column
\* holds values join cannot take); q_delta is the driver's gap to pole in
\* the qualifying session, in 1/100 s
Res(code, grid, laps, pit, q_delta) ==
    [Abbreviation |-> code, GridPosition |-> grid, laps |-> laps, pit |-> pit,
     q_delta |-> q_delta]

\* one race session of the service: whether get_session/load succeed,
\* whether the benchmark block runs through, the pole time (None when the
\* qualifying session does not load) and the results
Session(load, benchmarks, pole, results) ==
    [load |-> load, benchmarks |-> benchmarks, pole |-> pole, results |-> results]

Sessions ==
    { Session("fails", "ok", None, <<>>),
      Session("ok", "ok", 78, <<>>),
      Session("ok", "ok", 78, <<Res("VER", 1, "stops", 21, 0),
                                Res("HAM", 2, "no_stops", 0, 30)>>),
      Session("ok", "ok", None, <<Res("VER", 1, "stops", 23, 0),
                                  Res("SAI", 3, "none", 0, 45)>>),
      Session("ok", "ok", 78, <<Res("SAI", 1, "none", 0, 0),
                                Res("VER", 2, "stops", 24, 12)>>),
      Session("ok", "fails", None, <<Res("HAM", 1, "no_stops", 0, 0)>>),
      Session("ok", "ok", 78, <<Res("VER", 1, "stops", 22, 0),
                                Res("HAM", 2, "bad_compound", 0, 20)>>) }

\* N_ROUNDS, cut down to two seasons of two rounds and one round
N_ROUNDS == (2021 :> 2) @@ (2022 :> 1)

\* the seasons argument of collect_f1_race_dataset, one of them not in N_ROUNDS
seasons == <<2020, 2021, 2022>>

\* range(start_year, end_year + 1)
Years == <<2021, 2022>>

\* the seasons a builder walks through
SeasonsOf(prog) == IF prog = "build_full_dataset" THEN Years ELSE seasons

\* schedule[schedule['RoundNumber'] > 0], range(1, n_rounds + 1)
RoundsOf(y) == IF y \in DOMAIN N_ROUNDS THEN N_ROUNDS[y] ELSE 0

\* the (season, round) pairs the service is asked for
RoundKeys == UNION {{<<y, r>> : r \in 1..N_ROUNDS[y]} : y \in DOMAIN N_ROUNDS}

\* every service of the model
Services == [RoundKeys -> Sessions]

\* no dataset builder runs
NoIngestion ==
    /\ program = "create_advanced_features"
    /\ service = <<>>
    /\ year = 0
    /\ round_number = 0
    /\ res = 0
    /\ session_rows = <<>>
    /\ total_pit_time = Unassigned
    /\ pole_seconds = Unassigned
    /\ all_rows = <<>>
    /\ log = <<>>
    /\ dataset = NoResult

(***************************************************************************)
(* Step 3: the loops                                                       *)
(***************************************************************************)
\* history = df_driver.iloc[:idx], idx counted from 0
HistoryOf(timeline, i) == SubSeq(timeline, 1, i)

\* the gate of line 76 with its comparison off by one
TooShortOffByOne(hist) == Len(hist) <= MinHistory

\* the gate of line 76
TooShort(hist) == Len(hist) < MinHistory

\* lines 82-84
CountSeason(counts, season) ==
    IF season \in DOMAIN counts
    THEN [counts EXCEPT ![season] = @ + 1]
    ELSE counts @@ (season :> 1)

Init ==
    /\ df_races \in Tables
    /\ df = <<>>
    /\ pc = "call"
    /\ drivers = <<>>
    /\ d = 0
    /\ df_driver = <<>>
    /\ idx = 0
    /\ history = <<>>
    /\ current_race = NoRace
    /\ features = <<>>
    /\ processed_drivers = 0
    /\ rows_per_season = <<>>
    /\ result = NoResult
    /\ NoIngestion
    /\ weights = <<>>

\* the race tables whose (season, round, driver_code) keys are unique
InitUnique == Init /\ UniqueKeys(df_races)

\* the call on a table drawn from LongPool
InitLong ==
    /\ df_races \in LongTables
    /\ df = <<>>
    /\ pc = "call"
    /\ drivers = <<>>
    /\ d = 0
    /\ df_driver = <<>>
    /\ idx = 0
    /\ history = <<>>
    /\ current_race = NoRace
    /\ features = <<>>
    /\ processed_drivers = 0
    /\ rows_per_season = <<>>
    /\ result = NoResult
    /\ NoIngestion
    /\ weights = <<>>

\* lines 21-61, when no cast raises
Prepare ==
    LET local   == DfCopy(df_races)
        coerced == Coerce(local.rows)
    IN  /\ pc = "call"
        /\ ~CastRaises(coerced)
        /\ df_races' = IF local.shared THEN coerced ELSE df_races
        /\ df' = WithTimeOrder(SortValues(coerced))
        /\ drivers' = Unique(Col(df', "driver_code"))
        /\ d' = 1
        /\ pc' = "drivers"
        /\ UNCHANGED <<df_driver, idx, history, current_race, features,
                       processed_drivers, rows_per_season, result>>
        /\ UNCHANGED <<weights, ingestion>>

\* lines 21-51, when astype(int) raises: the run ends with the exception
PrepareRaises ==
    LET local   == DfCopy(df_races)
        coerced == Coerce(local.rows)
    IN  /\ pc = "call"
        /\ CastRaises(coerced)
        /\ df_races' = IF local.shared THEN coerced ELSE df_races
        /\ df' = SortValues(coerced)
        /\ pc' = "raised"
        /\ UNCHANGED <<drivers, d, df_driver, idx, history, current_race,
                       features, processed_drivers, rows_per_season, result>>
        /\ UNCHANGED <<weights, ingestion>>

\* lines 64-69: the next driver's timeline
NextDriver ==
    /\ pc = "drivers"
    /\ d <= Len(drivers)
    /\ df_driver' \in Timelines(df, drivers[d])
    /\ idx' = 0
    /\ pc' = "rows"
    /\ UNCHANGED <<df_races, df, drivers, d, history, current_race, features,
                   processed_drivers, rows_per_season, result>>
    /\ UNCHANGED <<weights, ingestion>>

\* lines 71-77: an iteration that stops at the gate
SkipRow ==
    /\ pc = "rows"
    /\ idx < Len(df_driver)
    /\ TooShort(HistoryOf(df_driver, idx))
    /\ history' = HistoryOf(df_driver, idx)
    /\ idx' = idx + 1
    /\ UNCHANGED <<df_races, df, pc, drivers, d, df_driver, current_race,
                   features, processed_drivers, rows_per_season, result>>
    /\ UNCHANGED <<weights, ingestion>>

\* lines 71-190: an iteration that appends a row
EmitRow ==
    /\ pc = "rows"
    /\ idx < Len(df_driver)
    /\ ~TooShort(HistoryOf(df_driver, idx))
    /\ history' = HistoryOf(df_driver, idx)
    /\ current_race' = df_driver[idx + 1]
    /\ rows_per_season' = CountSeason(rows_per_season, current_race'.season)
    /\ features' = Append(features, BuildRow(history', current_race'))
    /\ idx' = idx + 1
    /\ UNCHANGED <<df_races, df, pc, drivers, d, df_driver, processed_drivers,
                   result>>
    /\ UNCHANGED <<weights, ingestion>>

\* line 192: the inner loop is over
EndDriver ==
    /\ pc = "rows"
    /\ idx = Len(df_driver)
    /\ processed_drivers' = processed_drivers + 1
    /\ d' = d + 1
    /\ pc' = "drivers"
    /\ UNCHANGED <<df_races, df, drivers, df_driver, idx, history,
                   current_race, features, rows_per_season, result>>
    /\ UNCHANGED <<weights, ingestion>>

\* lines 194-199: the outer loop is over
Return ==
    /\ pc = "drivers"
    /\ d > Len(drivers)
    /\ result' = features
    /\ pc' = "done"
    /\ UNCHANGED <<df_races, df, drivers, d, df_driver, idx, history,
                   current_race, features, processed_drivers, rows_per_season>>
    /\ UNCHANGED <<weights, ingestion>>

Next ==
    \/ Prepare
    \/ PrepareRaises
    \/ NextDriver
    \/ SkipRow
    \/ EmitRow
    \/ EndDriver
    \/ Return

\* every race table of the model
Spec == Init /\ [][Next]_vars

\* the race tables that keep the key (season, round, driver_code) unique
SpecUnique == InitUnique /\ [][Next]_vars

(***************************************************************************)
(* The run as a function of the table: the same steps, composed            *)
(***************************************************************************)
\* the long tables of one driver
SpecLong == InitLong /\ [][Next]_vars

\* the histories of the driver of LongPool: every prefix of every timeline
Histories ==
    UNION {UNION {{HistoryOf(tl, i) : i \in 1..Len(tl)} :
                      tl \in Timelines(Prepared(t), "AAA")} :
              t \in {x \in LongTables : ~CastRaises(Coerce(x))}}

\* lines 91-100 alone, on a history of any length from 1
InitWeights ==
    /\ history \in Histories
    /\ pc = "weights"
    /\ weights = <<>>
    /\ df_races = <<>>
    /\ df = <<>>
    /\ drivers = <<>>
    /\ d = 0
    /\ df_driver = <<>>
    /\ idx = 0
    /\ current_race = NoRace
    /\ features = <<>>
    /\ processed_drivers = 0
    /\ rows_per_season = <<>>
    /\ result = NoResult
    /\ NoIngestion

\* line 91
WeightsExp ==
    /\ pc = "weights"
    /\ weights' = RawWeights(Len(history))
    /\ pc' = "normalize"
    /\ UNCHANGED <<df_races, df, drivers, d, df_driver, idx, history,
                   current_race, features, processed_drivers, rows_per_season,
                   result>>
    /\ UNCHANGED ingestion

\* line 92
WeightsNormalize ==
    /\ pc = "normalize"
    /\ weights' = Normalize(weights)
    /\ pc' = "average"
    /\ UNCHANGED <<df_races, df, drivers, d, df_driver, idx, history,
                   current_race, features, processed_drivers, rows_per_season,
                   result>>
    /\ UNCHANGED ingestion

\* lines 95-100
WeightsAverage ==
    /\ pc = "average"
    /\ features' =
           <<[weighted_avg_position |-> WeightedAvg(FilledPositions(history), weights),
              weighted_avg_points   |-> WeightedAvg(FilledPoints(history), weights)]>>
    /\ pc' = "averaged"
    /\ UNCHANGED <<df_races, df, drivers, d, df_driver, idx, history,
                   current_race, processed_drivers, rows_per_season, result,
                   weights>>
    /\ UNCHANGED ingestion

NextWeights ==
    \/ WeightsExp
    \/ WeightsNormalize
    \/ WeightsAverage

\* the weights of a history of any length
SpecWeights == InitWeights /\ [][NextWeights]_vars

(***************************************************************************)
(* process_session and build_full_dataset (data_ingestion2.py)             *)
(***************************************************************************)
\* the season of the outer loop
YearAt == SeasonsOf(program)[year]

\* the session fastf1 gives for the round of the loops
Sess == service[<<YearAt, round_number>>]

\* data_ingestion2.py lines 160-171: total_pit_time of a driver with laps
PitTime(drv) == IF drv.laps = "stops" THEN drv.pit ELSE 0

\* lines 145-158: quali_delta of a driver with laps, in 1/100 s
QualiDelta(drv, pole) ==
    LET real == IF pole # None THEN drv.q_delta ELSE NaN
    IN  IF real = NaN /\ drv.GridPosition # NaN
        THEN (drv.GridPosition - 1) * 15
        ELSE real

\* lines 103-176: total_pit_time after the branch of one driver
PitTimeAfter(drv, before) == IF drv.laps = "none" THEN before ELSE PitTime(drv)

\* the exception one pass of the driver loop ends with, "no" for none
Raised(drv, pit_before, pole) ==
    IF drv.laps # "none" /\ pole = Unassigned THEN "UnboundLocalError"
    ELSE IF drv.laps = "bad_compound" THEN "TypeError"
    ELSE IF PitTimeAfter(drv, pit_before) = Unassigned THEN "UnboundLocalError"
    ELSE "no"

\* lines 179-214
SessionRow(y, r, drv, pit_before, pole) ==
    [season             |-> y,
     round              |-> r,
     driver_code        |-> drv.Abbreviation,
     grid_position      |-> drv.GridPosition,
     total_pit_time_sec |-> PitTimeAfter(drv, pit_before),
     Quali_Delta_Pole   |-> IF drv.laps = "none" THEN NaN
                            ELSE QualiDelta(drv, pole)]

\* a call of one of the two builders
InitIngestion ==
    /\ program \in {"build_full_dataset", "collect_f1_race_dataset"}
    /\ service \in Services
    /\ pc = "season"
    /\ year = 1
    /\ round_number = 0
    /\ res = 0
    /\ session_rows = <<>>
    /\ total_pit_time = Unassigned
    /\ pole_seconds = Unassigned
    /\ all_rows = <<>>
    /\ log = <<>>
    /\ dataset = NoResult
    /\ df_races = <<>>
    /\ df = <<>>
    /\ drivers = <<>>
    /\ d = 0
    /\ df_driver = <<>>
    /\ idx = 0
    /\ history = <<>>
    /\ current_race = NoRace
    /\ features = <<>>
    /\ processed_drivers = 0
    /\ rows_per_season = <<>>
    /\ result = NoResult
    /\ weights = <<>>

\* lines 224-230: get_event_schedule raises
ScheduleFails ==
    /\ program = "build_full_dataset"
    /\ pc = "season"
    /\ year <= Len(Years)
    /\ log' = Append(log, <<YearAt, 0, "schedule">>)
    /\ year' = year + 1
    /\ UNCHANGED <<pc, program, service, round_number, res, session_rows,
                   total_pit_time, pole_seconds, all_rows, dataset>>
    /\ UNCHANGED engine

\* lines 224-232: the schedule of the season
ScheduleLoaded ==
    /\ program = "build_full_dataset"
    /\ pc = "season"
    /\ year <= Len(Years)
    /\ round_number' = 1
    /\ pc' = "round"
    /\ UNCHANGED <<program, service, year, res, session_rows, total_pit_time,
                   pole_seconds, all_rows, log, dataset>>
    /\ UNCHANGED engine

\* lines 241-251: get_session or load raises
SessionLoadFails ==
    /\ program = "build_full_dataset"
    /\ pc = "round"
    /\ round_number <= RoundsOf(YearAt)
    /\ Sess.load = "fails"
    /\ log' = Append(log, <<YearAt, round_number, "load">>)
    /\ round_number' = round_number + 1
    /\ UNCHANGED <<pc, program, service, year, res, session_rows,
                   total_pit_time, pole_seconds, all_rows, dataset>>
    /\ UNCHANGED engine

\* lines 241-248 and 20-40: process_session returns [] for empty results
SessionNoResults ==
    /\ program = "build_full_dataset"
    /\ pc = "round"
    /\ round_number <= RoundsOf(YearAt)
    /\ Sess.load = "ok"
    /\ Sess.results = <<>>
    /\ round_number' = round_number + 1
    /\ UNCHANGED <<pc, program, service, year, res, session_rows,
                   total_pit_time, pole_seconds, all_rows, log, dataset>>
    /\ UNCHANGED engine

\* lines 241-246 and 20-80: process_session up to the driver loop; when the
\* benchmark block raises before line 67, pole_seconds stays unassigned
ProcessSession ==
    /\ program = "build_full_dataset"
    /\ pc = "round"
    /\ round_number <= RoundsOf(YearAt)
    /\ Sess.load = "ok"
    /\ Sess.results # <<>>
    /\ session_rows' = <<>>
    /\ total_pit_time' = Unassigned
    /\ pole_seconds' = IF Sess.benchmarks = "fails" THEN Unassigned ELSE Sess.pole
    /\ res' = 1
    /\ pc' = "driver"
    /\ UNCHANGED <<program, service, year, round_number, all_rows, log, dataset>>
    /\ UNCHANGED engine

\* lines 85-216: one pass of the driver loop
DriverRow ==
    /\ program = "build_full_dataset"
    /\ pc = "driver"
    /\ res <= Len(Sess.results)
    /\ Raised(Sess.results[res], total_pit_time, pole_seconds) = "no"
    /\ total_pit_time' = PitTimeAfter(Sess.results[res], total_pit_time)
    /\ session_rows' = Append(session_rows,
           SessionRow(YearAt, round_number, Sess.results[res], total_pit_time,
                      pole_seconds))
    /\ res' = res + 1
    /\ UNCHANGED <<pc, program, service, year, round_number, pole_seconds,
                   all_rows, log, dataset>>
    /\ UNCHANGED engine

\* lines 85-216 and 250-251: a pass of the driver loop raises, the exception
\* leaves process_session and build_full_dataset prints the round as failed
DriverRaises ==
    /\ program = "build_full_dataset"
    /\ pc = "driver"
    /\ res <= Len(Sess.results)
    /\ Raised(Sess.results[res], total_pit_time, pole_seconds) # "no"
    /\ log' = Append(log, <<YearAt, round_number,
                            Raised(Sess.results[res], total_pit_time, pole_seconds)>>)
    /\ session_rows' = <<>>
    /\ res' = 0
    /\ round_number' = round_number + 1
    /\ pc' = "round"
    /\ UNCHANGED <<program, service, year, total_pit_time, pole_seconds,
                   all_rows, dataset>>
    /\ UNCHANGED engine

\* lines 218 and 246-248: process_session returns, all_data.extend(rows)
SessionReturns ==
    /\ program = "build_full_dataset"
    /\ pc = "driver"
    /\ res > Len(Sess.results)
    /\ all_rows' = all_rows \o session_rows
    /\ res' = 0
    /\ round_number' = round_number + 1
    /\ pc' = "round"
    /\ UNCHANGED <<program, service, year, session_rows, total_pit_time,
                   pole_seconds, log, dataset>>
    /\ UNCHANGED engine

\* line 234: the rounds of the season are over
EndSeason ==
    /\ program = "build_full_dataset"
    /\ pc = "round"
    /\ round_number > RoundsOf(YearAt)
    /\ year' = year + 1
    /\ pc' = "season"
    /\ UNCHANGED <<program, service, round_number, res, session_rows,
                   total_pit_time, pole_seconds, all_rows, log, dataset>>
    /\ UNCHANGED engine

\* line 253
BuildReturn ==
    /\ program = "build_full_dataset"
    /\ pc = "season"
    /\ year > Len(Years)
    /\ dataset' = all_rows
    /\ pc' = "returned"
    /\ UNCHANGED <<program, service, year, round_number, res, session_rows,
                   total_pit_time, pole_seconds, all_rows, log>>
    /\ UNCHANGED engine

(***************************************************************************)
(* collect_f1_race_dataset (data_ingestion.py)                             *)
(***************************************************************************)
\* data_ingestion.py lines 106-233: the row of one driver; both branches of
\* lines 162-171 assign the pit stop columns (a pits table with its Driver
\* and PitTime columns is taken as given)
CollectRow(y, r, drv) ==
    [season             |-> y,
     round              |-> r,
     driver_code        |-> drv.Abbreviation,
     grid_position      |-> drv.GridPosition,
     total_pit_time_sec |-> IF drv.laps = "stops" THEN drv.pit ELSE 0]

\* lines 57-63: a season N_ROUNDS does not know
CollectSkipSeason ==
    /\ program = "collect_f1_race_dataset"
    /\ pc = "season"
    /\ year <= Len(seasons)
    /\ RoundsOf(YearAt) = 0
    /\ year' = year + 1
    /\ UNCHANGED <<pc, program, service, round_number, res, session_rows,
                   total_pit_time, pole_seconds, all_rows, log, dataset>>
    /\ UNCHANGED engine

\* lines 57-66
CollectStartSeason ==
    /\ program = "collect_f1_race_dataset"
    /\ pc = "season"
    /\ year <= Len(seasons)
    /\ RoundsOf(YearAt) # 0
    /\ round_number' = 1
    /\ pc' = "round"
    /\ UNCHANGED <<program, service, year, res, session_rows, total_pit_time,
                   pole_seconds, all_rows, log, dataset>>
    /\ UNCHANGED engine

\* lines 66-73: get_session or load raises
CollectLoadFails ==
    /\ program = "collect_f1_race_dataset"
    /\ pc = "round"
    /\ round_number <= RoundsOf(YearAt)
    /\ Sess.load = "fails"
    /\ log' = Append(log, <<YearAt, round_number, "load">>)
    /\ round_number' = round_number + 1
    /\ UNCHANGED <<pc, program, service, year, res, session_rows,
                   total_pit_time, pole_seconds, all_rows, dataset>>
    /\ UNCHANGED engine

\* lines 66-79: a session without results
CollectNoResults ==
    /\ program = "collect_f1_race_dataset"
    /\ pc = "round"
    /\ round_number <= RoundsOf(YearAt)
    /\ Sess.load = "ok"
    /\ Sess.results = <<>>
    /\ round_number' = round_number + 1
    /\ UNCHANGED <<pc, program, service, year, res, session_rows,
                   total_pit_time, pole_seconds, all_rows, log, dataset>>
    /\ UNCHANGED engine

\* lines 66-103: the session, its laps, event and pit stops
CollectSession ==
    /\ program = "collect_f1_race_dataset"
    /\ pc = "round"
    /\ round_number <= RoundsOf(YearAt)
    /\ Sess.load = "ok"
    /\ Sess.results # <<>>
    /\ res' = 1
    /\ pc' = "driver"
    /\ UNCHANGED <<program, service, year, round_number, session_rows,
                   total_pit_time, pole_seconds, all_rows, log, dataset>>
    /\ UNCHANGED engine

\* lines 106-235: one pass of the driver loop, all_rows.append(row)
CollectDriverRow ==
    /\ program = "collect_f1_race_dataset"
    /\ pc = "driver"
    /\ res <= Len(Sess.results)
    /\ Sess.results[res].laps # "bad_compound"
    /\ total_pit_time' = CollectRow(YearAt, round_number, Sess.results[res]).total_pit_time_sec
    /\ all_rows' = Append(all_rows, CollectRow(YearAt, round_number, Sess.results[res]))
    /\ res' = res + 1
    /\ UNCHANGED <<pc, program, service, year, round_number, session_rows,
                   pole_seconds, log, dataset>>
    /\ UNCHANGED engine

\* lines 106-232: join raises on the driver's compounds; no handler is
\* around the driver loop, the exception ends collect_f1_race_dataset
CollectDriverRaises ==
    /\ program = "collect_f1_race_dataset"
    /\ pc = "driver"
    /\ res <= Len(Sess.results)
    /\ Sess.results[res].laps = "bad_compound"
    /\ pc' = "raised"
    /\ UNCHANGED <<program, service, year, round_number, res, session_rows,
                   total_pit_time, pole_seconds, all_rows, log, dataset>>
    /\ UNCHANGED engine

\* line 106: the drivers of the session are over
CollectEndSession ==
    /\ program = "collect_f1_race_dataset"
    /\ pc = "driver"
    /\ res > Len(Sess.results)
    /\ res' = 0
    /\ round_number' = round_number + 1
    /\ pc' = "round"
    /\ UNCHANGED <<program, service, year, session_rows, total_pit_time,
                   pole_seconds, all_rows, log, dataset>>
    /\ UNCHANGED engine

\* line 66: the rounds of the season are over
CollectEndSeason ==
    /\ program = "collect_f1_race_dataset"
    /\ pc = "round"
    /\ round_number > RoundsOf(YearAt)
    /\ year' = year + 1
    /\ pc' = "season"
    /\ UNCHANGED <<program, service, round_number, res, session_rows,
                   total_pit_time, pole_seconds, all_rows, log, dataset>>
    /\ UNCHANGED engine

\* lines 237-243
CollectReturn ==
    /\ program = "collect_f1_race_dataset"
    /\ pc = "season"
    /\ year > Len(seasons)
    /\ dataset' = all_rows
    /\ pc' = "returned"
    /\ UNCHANGED <<program, service, year, round_number, res, session_rows,
                   total_pit_time, pole_seconds, all_rows, log>>
    /\ UNCHANGED engine

NextIngestion ==
    \/ ScheduleFails
    \/ ScheduleLoaded
    \/ SessionLoadFails
    \/ SessionNoResults
    \/ ProcessSession
    \/ DriverRow
    \/ DriverRaises
    \/ SessionReturns
    \/ EndSeason
    \/ BuildReturn
    \/ CollectSkipSeason
    \/ CollectStartSeason
    \/ CollectLoadFails
    \/ CollectNoResults
    \/ CollectSession
    \/ CollectDriverRow
    \/ CollectDriverRaises
    \/ CollectEndSession
    \/ CollectEndSeason
    \/ CollectReturn

\* the two dataset builders on every service of the model
SpecIngestion == InitIngestion /\ [][NextIngestion]_vars

RECURSIVE WalkTimeline(_, _, _)
\* lines 71-190 from position i on, rows appended to acc
WalkTimeline(timeline, i, acc) ==
    IF i >= Len(timeline) THEN acc
    ELSE IF TooShort(HistoryOf(timeline, i))
         THEN WalkTimeline(timeline, i + 1, acc)
         ELSE WalkTimeline(timeline, i + 1,
                  Append(acc, BuildRow(HistoryOf(timeline, i), timeline[i + 1])))

RECURSIVE WalkDrivers(_, _, _)
\* lines 64-192 from driver k on
WalkDrivers(t, k, acc) ==
    LET codes == Unique(Col(t, "driver_code"))
    IN  IF k > Len(codes) THEN acc
        ELSE WalkDrivers(t, k + 1,
                 WalkTimeline(CHOOSE tl \in Timelines(t, codes[k]) : TRUE, 0, acc))

\* create_advanced_features(t): the returned rows, NoResult when it raises
CreateAdvancedFeatures(t) ==
    IF CastRaises(Coerce(DfCopy(t).rows)) THEN NoResult
    ELSE WalkDrivers(Prepared(t), 1, <<>>)

(***************************************************************************)
(* Properties                                                              *)
(***************************************************************************)
\* the state right after an iteration appended a row for current_race, with
\* history the rows it was built from
JustEmitted == pc = "rows" /\ idx >= 1 /\ current_race = df_driver[idx]

LastRow == features[Len(features)]

DriverCodes(t) == {t[i].driver_code : i \in 1..Len(t)}

RecordsOf(t, c) == {i \in 1..Len(t) : t[i].driver_code = c}

\* the records of the same driver that are earlier in (season, round)
EarlierRecords(t, i) ==
    {j \in RecordsOf(t, t[i].driver_code) :
        \/ t[j].season < t[i].season
        \/ t[j].season = t[i].season /\ t[j].round < t[i].round}

RowsFor(rows, c) == SelectSeq(rows, LAMBDA r : r.driver_code = c)

\* C2: a run that returns has emitted, for every driver with n records,
\* exactly max(0, n-3) rows; when the keys are unique a record has a row
\* exactly when at least 3 records of its driver are earlier, so the first 3
\* records of a driver have none and a driver with 4 records has one row,
\* for the 4th.
C2_MinimumHistoryGate ==
    pc = "done" =>
        \A c \in DriverCodes(df_races) :
            LET n == Cardinality(RecordsOf(df_races, c))
            IN  /\ Len(RowsFor(result, c)) = IF n > 3 THEN n - 3 ELSE 0
                /\ UniqueKeys(df_races) =>
                       \A i \in RecordsOf(df_races, c) :
                           (\E k \in 1..Len(result) :
                               /\ result[k].driver_code = c
                               /\ result[k].season = df_races[i].season
                               /\ result[k].round = df_races[i].round)
                           <=> Cardinality(EarlierRecords(df_races, i)) >= 3

\* a returned run with a driver of exactly 4 records and one row, and
\* another driver of fewer than 3 records and no row
C2_Witness ==
    /\ pc = "done"
    /\ \E c \in DriverCodes(df_races) :
           /\ Cardinality(RecordsOf(df_races, c)) = 4
           /\ Len(RowsFor(result, c)) = 1
    /\ \E c \in DriverCodes(df_races) :
           /\ Cardinality(RecordsOf(df_races, c)) < 3
           /\ Len(RowsFor(result, c)) = 0

\* C3: in the prepared table a record of an earlier season has a smaller
\* time_order than any record of a later season, and within a season
\* time_order is smaller exactly when round is smaller.
C3_TimeOrderMonotonic ==
    pc \in {"drivers", "rows", "done"} =>
        \A i, j \in 1..Len(df) :
            /\ df[i].season < df[j].season => df[i].time_order < df[j].time_order
            /\ df[i].season = df[j].season =>
                   (df[i].time_order < df[j].time_order <=> df[i].round < df[j].round)

\* a prepared table with a gap in a season's rounds and a later season,
\* made from an input whose rows were not in chronological order
C3_Witness ==
    /\ pc = "drivers"
    /\ \E i, j, k \in 1..Len(df) :
           /\ df[i].season = df[j].season
           /\ df[j].round > df[i].round + 1
           /\ df[j].time_order = df[i].time_order + 1
           /\ df[k].season > df[j].season
    /\ df_races[1].season > df_races[Len(df_races)].season

RECURSIVE SumOver(_, _)
\* the sum of f[i] over the indices in S
SumOver(f, S) ==
    IF S = {} THEN 0
    ELSE LET i == CHOOSE x \in S : TRUE IN f[i] + SumOver(f, S \ {i})

\* position 20 standing in for a missing final position
Imputed(h) == IF h.final_position_num = NaN THEN 20 ELSE h.final_position_num

\* C7: an emitted row's circuit_experience is the number of history records
\* on the current record's event_name; when that is 0 avg_position_on_circuit
\* is the row's weighted_avg_position, otherwise it is the plain mean of the
\* imputed final positions of exactly those records.
C7_CircuitFallback ==
    JustEmitted =>
        LET same == {i \in 1..Len(history) :
                        history[i].event_name = current_race.event_name}
            n    == Cardinality(same)
        IN  /\ LastRow.circuit_experience = n
            /\ n = 0 => LastRow.avg_position_on_circuit = LastRow.weighted_avg_position
            /\ n > 0 => LastRow.avg_position_on_circuit =
                            <<SumOver([i \in 1..Len(history) |-> Imputed(history[i])], same), n>>

\* a driver's second row falls back (no history on its circuit) after a
\* first row that had history on its circuit
C7_Witness ==
    /\ JustEmitted
    /\ Len(features) = 2
    /\ features[1].circuit_experience > 0
    /\ features[2].circuit_experience = 0
    /\ features[2].avg_position_on_circuit # Mean(FilledPositions(history))

\* C8: in every emitted row won = 1 implies podium = 1, podium = 1 implies a
\* final_position that is present and at most 3, and a current record
\* without final_position gets won = 0 and podium = 0.
C8_LabelConsistency ==
    /\ \A k \in 1..Len(features) :
           /\ features[k].won = 1 => features[k].podium = 1
           /\ features[k].podium = 1 =>
                  /\ features[k].final_position # NaN
                  /\ features[k].final_position <= 3
    /\ JustEmitted /\ current_race.final_position = NaN =>
           LastRow.won = 0 /\ LastRow.podium = 0

\* a row for a won race has been emitted, and now one for a current record
\* without final_position
C8_Witness ==
    /\ JustEmitted
    /\ current_race.final_position = NaN
    /\ \E k \in 1..Len(features) : features[k].won = 1

\* C10: the caller's table is never changed by the run, and the labels
\* final_position, grid_position and points_scored of an emitted row are the
\* values of the current record as the caller's table holds them, missing
\* when they are missing there, whatever was imputed in the aggregates.
C10_LabelsAndInputUntouched ==
    /\ [][df_races' = df_races]_vars
    /\ [](JustEmitted =>
            \E i \in 1..Len(df_races) :
                /\ df_races[i].driver_code = LastRow.driver_code
                /\ df_races[i].season = LastRow.season
                /\ df_races[i].round = LastRow.round
                /\ df_races[i].final_position = LastRow.final_position
                /\ df_races[i].grid_position = LastRow.grid_position
                /\ df_races[i].points = LastRow.points_scored)

\* a row whose current record has no final_position, built from a history
\* that holds a record with missing position, grid and points
C10_Witness ==
    /\ JustEmitted
    /\ LastRow.final_position = NaN
    /\ \E i \in 1..Len(history) :
           /\ history[i].final_position_num = NaN
           /\ history[i].grid_position_num = NaN
           /\ history[i].points = NaN

\* the columns of a row that are computed from the history
FeatureNames ==
    {"race_experience", "weighted_avg_position", "weighted_avg_points",
     "recent_form_3races", "recent_points_3races", "podiums_last_5races",
     "consistency_std_position", "finish_rate", "avg_grid_position_history",
     "avg_grid_to_race_gain", "avg_position_on_circuit", "circuit_experience"}

FeatureColumns(row) == [f \in FeatureNames |-> row[f]]

\* a record with other outcome fields
WithOutcome(r, final, grid, points, status) ==
    [r EXCEPT !.final_position = final, !.final_position_num = final,
              !.grid_position = grid, !.grid_position_num = grid,
              !.points = points, !.status = status]

\* C1: the features of an emitted row are those of the driver's records at
\* the positions before the current one, each of them with a time_order
\* strictly smaller than the current record's, and they stay the same when
\* the outcome fields of the current record are changed.
C1_NoLeakage ==
    JustEmitted =>
        /\ history = SubSeq(df_driver, 1, idx - 1)
        /\ \A i \in 1..Len(history) :
               history[i].time_order < current_race.time_order
        /\ \A final \in {NaN, 1, 9}, grid \in {NaN, 2}, points \in {NaN, 25},
              status \in {"Finished", "Retired"} :
               FeatureColumns(LastRow) =
                   HistoryFeatures(history,
                       WithOutcome(current_race, final, grid, points, status))

\* the same statement for the tables whose keys are unique
C1_NoLeakageUniqueKeys == UniqueKeys(df_races) => C1_NoLeakage

\* C4: a run on a table that holds two records with the same
\* (season, round, driver_code) ends with an error and returns no table.
C4_DuplicateKeyRejected ==
    ~UniqueKeys(df_races) /\ pc # "call" =>
        /\ pc = "raised"
        /\ features = <<>>
        /\ result = NoResult

\* the numbers a run keeps besides its rows
ReportedCounts ==
    {processed_drivers} \cup {rows_per_season[s] : s \in DOMAIN rows_per_season}

\* C5: a run that returns has kept a count of the records skipped for
\* insufficient history: one of its counters plus the number of rows emitted
\* is the number of input records.
C5_SkippedRowsCounted ==
    pc = "done" =>
        \E skipped \in ReportedCounts : Len(result) + skipped = Len(df_races)

RECURSIVE PermsOf(_)
\* the orders of the indices in S
PermsOf(S) ==
    IF S = {} THEN {<<>>}
    ELSE UNION {{<<i>> \o p : p \in PermsOf(S \ {i})} : i \in S}

Reorder(t, p) == [k \in 1..Len(t) |-> t[p[k]]]

RowSet(rows) == {rows[k] : k \in 1..Len(rows)}

\* C6: for a table with unique keys, a run on any permutation of its rows,
\* and a second run on the table itself, return the same rows up to their
\* order.
C6_OrderIndependent ==
    pc = "done" =>
        \A p \in PermsOf(1..Len(df_races)) :
            LET again == CreateAdvancedFeatures(Reorder(df_races, p))
            IN  Len(again) = Len(result) /\ RowSet(again) = RowSet(result)

\* a returned run with two rows, on a table whose first row is not the
\* earliest record
C6_Witness ==
    /\ pc = "done"
    /\ Len(result) = 2
    /\ \E i \in 2..Len(df_races) : df_races[i].season < df_races[1].season

\* records of another driver than c, in rounds that are and are not among
\* c's, one of them without a final position
OtherRecords(c) ==
    {R(2022, round, "Imola", 100 + round, IF c = "AAA" THEN "BBB" ELSE "AAA",
       IF round = 3 THEN NaN ELSE round, round, "Finished", 1) :
         round \in {1, 3, 4}}

RECURSIVE OtherTables(_, _)
\* the tables of at most n of those records, with unique keys
OtherTables(c, n) ==
    IF n = 0 THEN {<<>>}
    ELSE LET shorter == OtherTables(c, n - 1)
         IN  shorter \cup
             UNION {{Append(t, r) : r \in {y \in OtherRecords(c) :
                                      \A k \in 1..Len(t) : t[k].round # y.round}} :
                    t \in {x \in shorter : Len(x) = n - 1}}

\* the rows of driver c in the caller's table, followed by the rows others
WithOthers(c, others) ==
    LET own == SelectSeq(df_races, LAMBDA r : r.driver_code = c)
    IN  IF HasColumn(df_races, "event_date") THEN others \o own
        ELSE DropDate(others) \o own

\* C9: for a table with unique keys, the rows a run returns for a driver are
\* the rows a run returns for that driver on any table that holds the same
\* records of that driver and other records of other drivers, among them
\* records that bring new round numbers into a season.
C9_EntityIndependent ==
    pc = "done" =>
        \A c \in DriverCodes(df_races) :
            \A others \in OtherTables(c, MaxOthers) :
                RowsFor(CreateAdvancedFeatures(WithOthers(c, others)), c)
                    = RowsFor(result, c)

\* a returned run with rows for one driver on a table that also holds
\* records of another driver
C9_Witness ==
    /\ pc = "done"
    /\ Cardinality(DriverCodes(df_races)) = 2
    /\ Len(result) >= 1

\* equality of two fractions
RatEq(a, b) == a[1] * b[2] = b[1] * a[2]

\* the last k positions of a sequence of length n
LastIndices(n, k) == {i \in 1..n : i > n - k}

\* C11: in an emitted row race_experience is the number of history records,
\* finish_rate is the number of them with status "Finished" over
\* race_experience, recent_form_3races is the mean over the last 3 of the
\* final position with 20 for a missing one, recent_points_3races is the sum
\* over the last 3 of the points with 0 for missing ones, podiums_last_5races
\* counts the positions <= 3 among the last 5; history positions (5, 3,
\* missing) with statuses (Finished, Finished, DNF) give 3, 2/3 and 28/3.
C11_FeatureDefinitions ==
    JustEmitted =>
        LET n        == Len(history)
            finished == {i \in 1..n : history[i].status = "Finished"}
            last3    == LastIndices(n, 3)
            last5    == LastIndices(n, 5)
            pos      == [i \in 1..n |-> Imputed(history[i])]
            pts      == [i \in 1..n |-> IF history[i].points = NaN THEN 0
                                        ELSE history[i].points]
        IN  /\ LastRow.race_experience = n
            /\ RatEq(LastRow.finish_rate, <<Cardinality(finished), n>>)
            /\ RatEq(LastRow.recent_form_3races,
                     <<SumOver(pos, last3), Cardinality(last3)>>)
            /\ LastRow.recent_points_3races = SumOver(pts, last3)
            /\ LastRow.podiums_last_5races =
                   Cardinality({i \in last5 :
                       /\ history[i].final_position_num # NaN
                       /\ history[i].final_position_num <= 3})
            /\ /\ Col(history, "final_position_num") = <<5, 3, NaN>>
               /\ Col(history, "status") = <<"Finished", "Finished", "DNF">>
               => /\ LastRow.race_experience = 3
                  /\ RatEq(LastRow.finish_rate, <<2, 3>>)
                  /\ RatEq(LastRow.recent_form_3races, <<28, 3>>)

\* a row built from a history of 6 records whose oldest record, outside
\* both windows, was a podium and whose last 3 hold a record that did not
\* finish
C11_Witness ==
    /\ JustEmitted
    /\ Len(history) = 6
    /\ history[1].final_position_num = 1
    /\ LastRow.podiums_last_5races = 2
    /\ \E i \in LastIndices(6, 3) : history[i].status # "Finished"

\* the history of the example: positions (5, 3, missing)
C11_ExampleReached ==
    /\ JustEmitted
    /\ Col(history, "final_position_num") = <<5, 3, NaN>>
    /\ Col(history, "status") = <<"Finished", "Finished", "DNF">>

\* a cell of an ordering column that is missing or is no number
Unusable(v) == v = NaN \/ v = BadText

\* C12: a run on a table with a record whose season or round is missing or
\* unparseable ends with an error before any row is emitted, and returns
\* no table.
C12_UnparseableOrderingFatal ==
    (\E i \in 1..Len(df_races) :
        Unusable(df_races[i].season) \/ Unusable(df_races[i].round))
    => /\ pc \in {"call", "raised"}
       /\ features = <<>>
       /\ result = NoResult

\* a run that raised on a table holding four records of one driver with
\* usable keys, enough for a row, beside the unusable one
C12_Witness ==
    /\ pc = "raised"
    /\ \E c \in DriverCodes(df_races) :
           Cardinality({i \in RecordsOf(df_races, c) :
               /\ ~Unusable(df_races[i].season)
               /\ ~Unusable(df_races[i].round)}) >= 4

\* C13: for every history length n >= 1 the weights exp(linspace(-2, 0, n))
\* divided by their sum add up to 1 (within one unit of 1/Scale per weight,
\* the rounding of the division), never decrease with the index, and for
\* n = 1 the single weight is 1.
C13_WeightNormalization ==
    pc \in {"average", "averaged"} =>
        LET n == Len(weights)
        IN  /\ n = Len(history)
            /\ SumSeq(weights) <= Scale
            /\ SumSeq(weights) > Scale - n
            /\ \A i \in 1..n : \A j \in i..n : weights[i] <= weights[j]
            /\ n = 1 => weights = <<Scale>>

\* normalized weights of a history of 4 records or more, the last one the
\* largest, used in an average
C13_Witness ==
    /\ pc = "averaged"
    /\ Len(weights) >= 4
    /\ weights[1] < weights[Len(weights)]
    /\ features[1].weighted_avg_position[2] = SumSeq(weights)

\* the normalized weight of a history of one record
C13_SingleReached == pc = "averaged" /\ Len(weights) = 1

\* C14: in process_session the row of a driver depends on that driver's own
\* result and laps and on the session's benchmarks alone: no pass of the
\* driver loop ends on an unassigned variable (so the row of a driver
\* without lap data is produced), and the total_pit_time_sec of a driver
\* without lap data is not the value computed for a driver before them in
\* the same loop.
C14_DriverRowIsolation ==
    program = "build_full_dataset" =>
        /\ \A e \in 1..Len(log) : log[e][3] # "UnboundLocalError"
        /\ pc = "driver" =>
               \A i \in 1..Len(session_rows) :
                   Sess.results[i].laps = "none" =>
                       \A j \in 1..(i - 1) :
                           Sess.results[j].laps # "none" =>
                               session_rows[i].total_pit_time_sec #
                                   PitTime(Sess.results[j])

\* the row of a driver without lap data carries the pit time of the driver
\* before them
C14_StaleValueReached ==
    /\ program = "build_full_dataset"
    /\ pc = "driver"
    /\ Len(session_rows) = 2
    /\ Sess.results[2].laps = "none"
    /\ session_rows[2].total_pit_time_sec = session_rows[1].total_pit_time_sec
    /\ session_rows[1].total_pit_time_sec = 23

\* the first driver of a session has no lap data: the round is lost to an
\* unassigned total_pit_time
C14_UnassignedReached ==
    /\ program = "build_full_dataset"
    /\ log # <<>>
    /\ log[Len(log)][3] = "UnboundLocalError"
    /\ service[<<log[Len(log)][1], log[Len(log)][2]>>].results[1].laps = "none"

\* the rows of one round in a list of rows
RoundRows(rows, y, r) == SelectSeq(rows, LAMBDA row : row.season = y /\ row.round = r)

\* the round, or its whole season, was printed as failed
Reported(y, r) ==
    \E e \in 1..Len(log) : log[e][1] = y /\ log[e][2] \in {0, r}

\* the (season, round, driver) keys of a list of rows
RowKeys(rows) == [i \in 1..Len(rows) |-> <<rows[i].season, rows[i].round, rows[i].driver_code>>]

RECURSIVE ExpectedRounds(_, _)
\* the keys of the rounds r.. of season y that were not printed as failed
ExpectedRounds(y, r) ==
    IF r > RoundsOf(y) THEN <<>>
    ELSE (IF Reported(y, r) THEN <<>>
          ELSE [i \in 1..Len(service[<<y, r>>].results) |->
                   <<y, r, service[<<y, r>>].results[i].Abbreviation>>])
         \o ExpectedRounds(y, r + 1)

RECURSIVE ExpectedSeasons(_, _)
\* the same for the seasons i.. of a list of seasons
ExpectedSeasons(list, i) ==
    IF i > Len(list) THEN <<>>
    ELSE ExpectedRounds(list[i], 1) \o ExpectedSeasons(list, i + 1)

\* a round the loops are through has all its drivers' rows or none, and
\* none when it was printed as failed
NoPartialRound ==
    \A key \in RoundKeys :
        LET n == Len(RoundRows(all_rows, key[1], key[2]))
        IN  /\ Reported(key[1], key[2]) => n = 0
            /\ ~(pc = "driver" /\ key = <<YearAt, round_number>>)
               => n \in {0, Len(service[key].results)}

\* the returned dataset is the rows of the rounds not printed as failed, in
\* season then round order
ReturnsEveryGoodRound ==
    pc = "returned" => RowKeys(dataset) = ExpectedSeasons(SeasonsOf(program), 1)

\* C15: in build_full_dataset and in collect_f1_race_dataset a round whose
\* loading or processing raises contributes no rows, never a part of its
\* drivers' rows; the exception does not end the function, the loops go on
\* to the next round and season; and the returned dataset holds every row of
\* every round processed without an exception, in season then round order.
C15_RoundFailureIsolation ==
    /\ pc # "raised"
    /\ NoPartialRound
    /\ ReturnsEveryGoodRound

\* the same statement for build_full_dataset alone
BuildFullDatasetIsolates ==
    program = "build_full_dataset" =>
        pc # "raised" /\ NoPartialRound /\ ReturnsEveryGoodRound

\* build_full_dataset returns after a round failed in its driver loop and a
\* later round gave rows
BuildFullDatasetIsolatesReached ==
    /\ program = "build_full_dataset"
    /\ pc = "returned"
    /\ \E e \in 1..Len(log) :
           /\ log[e][3] = "TypeError"
           /\ \E i \in 1..Len(dataset) :
                  \/ dataset[i].season > log[e][1]
                  \/ dataset[i].season = log[e][1] /\ dataset[i].round > log[e][2]

\* collect_f1_race_dataset ended by the exception of a driver's pass, with
\* rows of the round's earlier drivers and of an earlier round in all_rows
C15_CollectAbortReached ==
    /\ program = "collect_f1_race_dataset"
    /\ pc = "raised"
    /\ dataset = NoResult
    /\ RoundRows(all_rows, YearAt, round_number) # <<>>
    /\ Len(all_rows) > Len(RoundRows(all_rows, YearAt, round_number))

====
